---- MODULE Spec2Model ----
(***************************************************************************)
(* Model of monad-selector: the Maybe and Result containers (src/maybe.ts, *)
(* src/result.ts) and the two selector wrappers (MaybeSelector,            *)
(* ResultSelector).  JavaScript values are records tagged by "kind";       *)
(* objects are maps from property names to values and methods are closures *)
(* (a function name plus the captured variable), so that an object spread  *)
(* copies the methods together with what they captured.                    *)
(***************************************************************************)
EXTENDS Integers, Sequences, FiniteSets, TLC

(* Longest chain of calls explored after the first call. *)
MaxSteps == 3

----------------------------------------------------------------------------
(* JavaScript values *)

Undefined == [kind |-> "undefined"]

Null == [kind |-> "null"]

Str(s) == [kind |-> "string", s |-> s]

Bool(b) == [kind |-> "boolean", b |-> b]

(* An Error object; ref stands for the object's identity (its allocation). *)
ErrorObj(name, message, ref) ==
  [kind |-> "Error", name |-> name, message |-> message, ref |-> ref]

Obj(props) == [kind |-> "object", props |-> props]

Closure(fn, env) == [kind |-> "function", fn |-> fn, env |-> env]

(* a instanceof Error *)
InstanceOfError(a) == a.kind = "Error"

(* The i-th actual argument; a missing argument reads as undefined. *)
Arg(args, i) == IF i <= Len(args) THEN args[i] ELSE Undefined

----------------------------------------------------------------------------
(* Outcome of evaluating an expression: a returned value or a thrown one,  *)
(* with the callback invocations made on the way.                          *)

Ret(v) == [threw |-> FALSE, v |-> v, calls |-> <<>>]

Throw(e) == [threw |-> TRUE, v |-> e, calls |-> <<>>]

(* o ; r : r is what follows when o returned (it reads o.v); a throw in o *)
(* is the outcome of the whole.                                          *)
Then(o, r) ==
  IF o.threw THEN o ELSE [r EXCEPT !.calls = o.calls \o r.calls]

(* a.k : reading a property of null or undefined throws a TypeError. *)
GetProp(a, k) ==
  IF a.kind \in {"undefined", "null"}
    THEN Throw(ErrorObj("TypeError", "Cannot read property of " \o a.kind, "engine"))
  ELSE IF a.kind = "object" /\ k \in DOMAIN a.props THEN Ret(a.props[k])
  ELSE IF a.kind = "Error" /\ k = "message" THEN Ret(Str(a.message))
  ELSE Ret(Undefined)

(* The spread with the operands' precedence swapped: the first one wins. *)
SpreadFirstWins(a, b) ==
  [k \in DOMAIN a \cup DOMAIN b |-> IF k \in DOMAIN a THEN a[k] ELSE b[k]]

(* { ...a, ...b } on the property maps *)
Spread(a, b) ==
  [k \in DOMAIN a \cup DOMAIN b |-> IF k \in DOMAIN b THEN b[k] ELSE a[k]]

(* Calling a function value; defined after the methods it dispatches to. *)
RECURSIVE Call(_, _)

(* f(...args) for a function f handed in by the caller, noting the call. *)
Invoke(f, args) ==
  LET r == Call(f, args)
  IN  [r EXCEPT !.calls = <<[f |-> f, args |-> args]>> \o r.calls]

(* obj.key(...args) *)
CallMethod(obj, key, args) ==
  LET m == GetProp(obj, key) IN Then(m, Call(m.v, args))

----------------------------------------------------------------------------
(* maybe.ts *)

(* The object literal Nothing() returns. *)
NothingObj ==
  Obj([flatMap   |-> Closure("Nothing.flatMap", Undefined),
       forEach   |-> Closure("Nothing.forEach", Undefined),
       get       |-> Closure("Nothing.get", Undefined),
       isNothing |-> Bool(TRUE),
       join      |-> Closure("Nothing.join", Undefined),
       map       |-> Closure("Nothing.map", Undefined),
       use       |-> Closure("Nothing.use", Undefined),
       value     |-> Undefined])

Nothing == Ret(NothingObj)

(* The object literal Just(a) returns. *)
JustObj(a) ==
  Obj([flatMap   |-> Closure("Just.flatMap", a),
       forEach   |-> Closure("Just.forEach", a),
       get       |-> Closure("Just.get", a),
       isNothing |-> Bool(FALSE),
       join      |-> Closure("Just.join", a),
       map       |-> Closure("Just.map", a),
       use       |-> Closure("Just.use", a),
       value     |-> a])

Just(a) ==
  IF a = Undefined \/ a = Null
    THEN Throw(ErrorObj("TypeError",
           "invalid argument provided to Just: undefined and null values are not allowed",
           "Just"))
    ELSE Ret(JustObj(a))

(* Maybe with the null test forgotten. *)
MaybeUndefinedOnly(a) == IF a = Undefined THEN Nothing ELSE Just(a)

Maybe(a) == IF a = Undefined \/ a = Null THEN Nothing ELSE Just(a)

isMaybe(a) ==
  LET p == GetProp(a, "isNothing") IN Then(p, Ret(Bool(p.v # Undefined)))

----------------------------------------------------------------------------
(* result.ts *)

(* The object literal Err(e) returns. *)
ErrObj(e) ==
  Obj([flatMap  |-> Closure("Err.flatMap", e),
       forEach  |-> Closure("Err.forEach", e),
       get      |-> Closure("Err.get", e),
       getError |-> Closure("Err.getError", e),
       getValue |-> Closure("Err.getValue", e),
       isOk     |-> Bool(FALSE),
       join     |-> Closure("Err.join", e),
       map      |-> Closure("Err.map", e),
       use      |-> Closure("Err.use", e),
       value    |-> e])

(* Err with the argument test left out. *)
ErrUnchecked(e) == Ret(ErrObj(e))

Err(e) ==
  IF ~InstanceOfError(e)
    THEN Throw(ErrorObj("TypeError",
           "invalid argument provided to Err: only Error values are allowed",
           "Err"))
    ELSE Ret(ErrObj(e))

(* The object literal Ok(a) returns. *)
OkObj(a) ==
  Obj([flatMap  |-> Closure("Ok.flatMap", a),
       forEach  |-> Closure("Ok.forEach", a),
       get      |-> Closure("Ok.get", a),
       getError |-> Closure("Ok.getError", a),
       getValue |-> Closure("Ok.getValue", a),
       isOk     |-> Bool(TRUE),
       join     |-> Closure("Ok.join", a),
       map      |-> Closure("Ok.map", a),
       use      |-> Closure("Ok.use", a),
       value    |-> a])

Ok(a) ==
  IF InstanceOfError(a)
    THEN Throw(ErrorObj("TypeError",
           "invalid argument provided to Ok: Error values are not allowed",
           "Ok"))
    ELSE Ret(OkObj(a))

(* Result treating null and undefined as failures, the way Maybe does. *)
ResultNullAsErr(a) ==
  IF InstanceOfError(a) \/ a = Undefined \/ a = Null THEN Err(a) ELSE Ok(a)

Result(a) == IF InstanceOfError(a) THEN Err(a) ELSE Ok(a)

isResult(a) ==
  LET p == GetProp(a, "isOk") IN Then(p, Ret(Bool(p.v # Undefined)))

----------------------------------------------------------------------------
(* The methods of the four variants; a is the captured constructor argument *)

NothingFlatMap(f) == Nothing

NothingForEach(f) == Ret(Undefined)

NothingGet ==
  Throw(ErrorObj("TypeError", "value is undefined", "Nothing.get"))

NothingJoin(f) == Invoke(f, <<>>)

(* map of the absent variant calling f all the same. *)
NothingMapCalls(f) ==
  LET b == Invoke(f, <<Undefined>>) IN Then(b, Maybe(b.v))

NothingMap(f) == Nothing

NothingUse(f) == Ret(Undefined)

JustFlatMap(a, f) == Invoke(f, <<a>>)

JustForEach(a, f) == Invoke(f, <<a>>)

JustGet(a) == Ret(a)

(* join of the present variant dispatching to the first callback. *)
JustJoinFirst(a, f1, f2) == Invoke(f1, <<a>>)

JustJoin(a, f1, f2) == Invoke(f2, <<a>>)

(* map re-wrapping with Just instead of going through Maybe. *)
JustMapDirect(a, f) ==
  LET b == Invoke(f, <<a>>) IN Then(b, Ret(JustObj(b.v)))

JustMap(a, f) == LET b == Invoke(f, <<a>>) IN Then(b, Maybe(b.v))

JustUse(a, f) == Invoke(f, <<a>>)

ErrFlatMap(e, f) == Err(e)

ErrForEach(e, f) == Ret(Undefined)

(* get throwing a fresh error with the same message. *)
ErrGetCopy(e) == Throw(ErrorObj("Error", e.message, "Err.get"))

ErrGet(e) == Throw(e)

ErrGetError(e) == Ret(e)

ErrGetValue(e) == Ret(Undefined)

ErrJoin(e, f) == Invoke(f, <<e>>)

ErrMap(e, f) == Err(e)

ErrUse(e, f) == Ret(Undefined)

OkFlatMap(a, f) == Invoke(f, <<a>>)

OkForEach(a, f) == Invoke(f, <<a>>)

OkGet(a) == Ret(a)

OkGetError(a) == Ret(Undefined)

OkGetValue(a) == Ret(a)

OkJoin(a, f1, f2) == Invoke(f2, <<a>>)

OkMap(a, f) == LET b == Invoke(f, <<a>>) IN Then(b, Result(b.v))

OkUse(a, f) == Invoke(f, <<a>>)

----------------------------------------------------------------------------
(* Functions handed in by the caller: callbacks, selector factories and the *)
(* accessors the factories return.                                         *)

(* () => v *)
CbConst(v) == Closure("cb.const", v)

(* r => r.profileUrl *)
CbProfileUrl == Closure("cb.profileUrl", Undefined)

(* e => e.message *)
CbMessage == Closure("cb.message", Undefined)

(* a => Maybe(v) *)
CbMaybeOf(v) == Closure("cb.maybeOf", v)

(* a => Result(v) *)
CbResultOf(v) == Closure("cb.resultOf", v)

(* (_, result) => ({ profileUrl() { return result.map(r => r.profileUrl) } }) *)
UserFactory == Closure("factory.user", Undefined)

(* (_, result) => ({ map: () => result, value: "shadow" }) *)
OverrideFactory == Closure("factory.override", Undefined)

Call(m, args) ==
  IF m.kind # "function"
    THEN Throw(ErrorObj("TypeError", "not a function", "engine"))
  ELSE CASE m.fn = "Nothing.flatMap" -> NothingFlatMap(Arg(args, 1))
    [] m.fn = "Nothing.forEach" -> NothingForEach(Arg(args, 1))
    [] m.fn = "Nothing.get"     -> NothingGet
    [] m.fn = "Nothing.join"    -> NothingJoin(Arg(args, 1))
    [] m.fn = "Nothing.map"     -> NothingMap(Arg(args, 1))
    [] m.fn = "Nothing.use"     -> NothingUse(Arg(args, 1))
    [] m.fn = "Just.flatMap"    -> JustFlatMap(m.env, Arg(args, 1))
    [] m.fn = "Just.forEach"    -> JustForEach(m.env, Arg(args, 1))
    [] m.fn = "Just.get"        -> JustGet(m.env)
    [] m.fn = "Just.join"       -> JustJoin(m.env, Arg(args, 1), Arg(args, 2))
    [] m.fn = "Just.map"        -> JustMap(m.env, Arg(args, 1))
    [] m.fn = "Just.use"        -> JustUse(m.env, Arg(args, 1))
    [] m.fn = "Err.flatMap"     -> ErrFlatMap(m.env, Arg(args, 1))
    [] m.fn = "Err.forEach"     -> ErrForEach(m.env, Arg(args, 1))
    [] m.fn = "Err.get"         -> ErrGet(m.env)
    [] m.fn = "Err.getError"    -> ErrGetError(m.env)
    [] m.fn = "Err.getValue"    -> ErrGetValue(m.env)
    [] m.fn = "Err.join"        -> ErrJoin(m.env, Arg(args, 1))
    [] m.fn = "Err.map"         -> ErrMap(m.env, Arg(args, 1))
    [] m.fn = "Err.use"         -> ErrUse(m.env, Arg(args, 1))
    [] m.fn = "Ok.flatMap"      -> OkFlatMap(m.env, Arg(args, 1))
    [] m.fn = "Ok.forEach"      -> OkForEach(m.env, Arg(args, 1))
    [] m.fn = "Ok.get"          -> OkGet(m.env)
    [] m.fn = "Ok.getError"     -> OkGetError(m.env)
    [] m.fn = "Ok.getValue"     -> OkGetValue(m.env)
    [] m.fn = "Ok.join"         -> OkJoin(m.env, Arg(args, 1), Arg(args, 2))
    [] m.fn = "Ok.map"          -> OkMap(m.env, Arg(args, 1))
    [] m.fn = "Ok.use"          -> OkUse(m.env, Arg(args, 1))
    [] m.fn = "cb.const"        -> Ret(m.env)
    [] m.fn = "cb.profileUrl"   -> GetProp(Arg(args, 1), "profileUrl")
    [] m.fn = "cb.message"      -> GetProp(Arg(args, 1), "message")
    [] m.fn = "cb.maybeOf"      -> Maybe(m.env)
    [] m.fn = "cb.resultOf"     -> Result(m.env)
    [] m.fn = "factory.user"    ->
         Ret(Obj([profileUrl |-> Closure("user.profileUrl", Arg(args, 2))]))
    [] m.fn = "factory.override" ->
         Ret(Obj([map   |-> Closure("override.map", Arg(args, 2)),
                  value |-> Str("shadow")]))
    [] m.fn = "user.profileUrl" -> CallMethod(m.env, "map", <<CbProfileUrl>>)
    [] m.fn = "override.map"    -> Ret(m.env)

----------------------------------------------------------------------------
(* maybe-selector.ts, result-selector.ts: the wrapper returned for a       *)
(* factory, applied to (s, r).                                             *)

(* The wrapper with the isMaybe branch left out: every defined r is wrapped. *)
MaybeSelectorRewraps(selectorFactory, s, r) ==
  LET result == IF r = Undefined THEN Nothing ELSE Just(r)
      sel == Invoke(selectorFactory, <<s, result.v>>)
  IN  Then(result, Then(sel, Ret(Obj(Spread(result.v.props, sel.v.props)))))

MaybeSelector(selectorFactory, s, r) ==
  LET t == isMaybe(r)
      result ==
        IF r = Undefined THEN Nothing
        ELSE Then(t, IF t.v = Bool(TRUE) THEN Ret(r) ELSE Just(r))
      sel == Invoke(selectorFactory, <<s, result.v>>)
  IN  Then(result, Then(sel, Ret(Obj(Spread(result.v.props, sel.v.props)))))

(* The wrapper with the undefined branch left to the smart constructor. *)
ResultSelectorOkUndefined(selectorFactory, s, r) ==
  LET t == isResult(r)
      result ==
        IF r = Undefined THEN Result(r)
        ELSE Then(t, IF t.v = Bool(TRUE) THEN Ret(r) ELSE Result(r))
      sel == Invoke(selectorFactory, <<s, result.v>>)
  IN  Then(result, Then(sel, Ret(Obj(Spread(result.v.props, sel.v.props)))))

ResultSelector(selectorFactory, s, r) ==
  LET t == isResult(r)
      result ==
        IF r = Undefined
          THEN Err(ErrorObj("Error", "result is undefined", "ResultSelector"))
        ELSE Then(t, IF t.v = Bool(TRUE) THEN Ret(r) ELSE Result(r))
      sel == Invoke(selectorFactory, <<s, result.v>>)
  IN  Then(result, Then(sel, Ret(Obj(Spread(result.v.props, sel.v.props)))))

----------------------------------------------------------------------------
(* A caller: one first call (a constructor, a predicate or a selector on a *)
(* raw value), then a chain of calls on the container it holds.            *)

VARIABLES pc, cur, start, last, opsUsed, steps

vars == <<pc, cur, start, last, opsUsed, steps>>

E1 == ErrorObj("Error", "fail", "e1")

E2 == ErrorObj("Error", "no match", "e2")

User1 == Obj([profileUrl |-> Str("http://website.test/user/1/profile")])

(* The root state handed to the selectors. *)
State == Obj([users |-> Obj([u1 |-> User1])])

(* Raw values a caller passes to constructors and selectors. *)
Inputs == {Undefined, Null, Str("a"), User1, E1}

(* Values the map / forEach / use / join callbacks return. *)
Outputs == {Undefined, Null, Str("b"), E2}

(* What the type predicates are asked about: raw values, containers and a *)
(* plain record that carries fields named like the variant tags.           *)
Candidates ==
  Inputs \cup {NothingObj, JustObj(Str("a")), OkObj(Str("a")), ErrObj(E1),
               Obj([isOk |-> Bool(TRUE), isNothing |-> Bool(FALSE)])}

MapCallbacks == {CbConst(v) : v \in Outputs} \cup {CbProfileUrl}

Factories == {UserFactory, OverrideFactory}

(* Callbacks run for their effect by forEach / use. *)
EffectCallbacks == {CbConst(Undefined), CbProfileUrl}

IsMaybeObj(o) == o.kind = "object" /\ "isNothing" \in DOMAIN o.props

IsResultObj(o) == o.kind = "object" /\ "isOk" \in DOMAIN o.props

(* f: (a: A) => Maybe<B> on a Maybe, (a: A) => Result<B> on a Result *)
FlatMapCallbacks(o) ==
  IF IsMaybeObj(o) THEN {CbMaybeOf(v) : v \in {Undefined, Str("b")}}
  ELSE {CbResultOf(v) : v \in {Undefined, Str("b"), E2}}

NoCall == [op |-> "none", recv |-> Undefined, args |-> <<>>, out |-> Ret(Undefined)]

Init ==
  /\ pc = "start"
  /\ cur = Undefined
  /\ start = NoCall
  /\ last = NoCall
  /\ opsUsed = {}
  /\ steps = 0

After(out) ==
  IF out.threw THEN "thrown"
  ELSE IF out.v.kind = "object" THEN "chain" ELSE "done"

(* The first call of a caller. *)
Begin(op, args, out) ==
  /\ pc = "start"
  /\ pc' = After(out)
  /\ cur' = IF out.threw THEN Undefined ELSE out.v
  /\ start' = [op |-> op, recv |-> Undefined, args |-> args, out |-> out]
  /\ last' = start'
  /\ opsUsed' = {}
  /\ steps' = 0

(* A later call on the container held; advance: the caller goes on with    *)
(* the value returned.                                                     *)
Step(op, args, out, advance) ==
  /\ pc = "chain"
  /\ steps < MaxSteps
  /\ pc' = IF out.threw THEN "thrown" ELSE "chain"
  /\ cur' = IF ~out.threw /\ advance THEN out.v ELSE cur
  /\ last' = [op |-> op, recv |-> cur, args |-> args, out |-> out]
  /\ opsUsed' = opsUsed \cup {op}
  /\ steps' = steps + 1
  /\ UNCHANGED start

CallMaybe ==
  /\ pc = "start"
  /\ \E a \in Inputs : Begin("Maybe", <<a>>, Maybe(a))

CallJust ==
  /\ pc = "start"
  /\ \E a \in Inputs : Begin("Just", <<a>>, Just(a))

CallNothing ==
  /\ pc = "start"
  /\ Begin("Nothing", <<>>, Nothing)

CallResult ==
  /\ pc = "start"
  /\ \E a \in Inputs : Begin("Result", <<a>>, Result(a))

CallOk ==
  /\ pc = "start"
  /\ \E a \in Inputs : Begin("Ok", <<a>>, Ok(a))

CallErr ==
  /\ pc = "start"
  /\ \E a \in Inputs : Begin("Err", <<a>>, Err(a))

CallIsMaybe ==
  /\ pc = "start"
  /\ \E a \in Candidates : Begin("isMaybe", <<a>>, isMaybe(a))

CallIsResult ==
  /\ pc = "start"
  /\ \E a \in Candidates : Begin("isResult", <<a>>, isResult(a))

(* user(state, state.users[id]) *)
CallMaybeSelector ==
  /\ pc = "start"
  /\ \E F \in Factories, r \in Inputs :
       Begin("MaybeSelector", <<F, State, r>>, MaybeSelector(F, State, r))

CallResultSelector ==
  /\ pc = "start"
  /\ \E F \in Factories, r \in Inputs :
       Begin("ResultSelector", <<F, State, r>>, ResultSelector(F, State, r))

(* user(state, root(state).user(id)) : the selector on a container *)
ChainMaybeSelector ==
  /\ pc = "chain"
  /\ IsMaybeObj(cur)
  /\ \E F \in Factories :
       Step("MaybeSelector", <<F, State, cur>>, MaybeSelector(F, State, cur), TRUE)

ChainResultSelector ==
  /\ pc = "chain"
  /\ IsResultObj(cur)
  /\ \E F \in Factories :
       Step("ResultSelector", <<F, State, cur>>, ResultSelector(F, State, cur), TRUE)

DoMap ==
  /\ pc = "chain"
  /\ \E f \in MapCallbacks :
       Step("map", <<f>>, CallMethod(cur, "map", <<f>>), TRUE)

DoFlatMap ==
  /\ pc = "chain"
  /\ \E f \in FlatMapCallbacks(cur) :
       Step("flatMap", <<f>>, CallMethod(cur, "flatMap", <<f>>), TRUE)

DoForEach ==
  /\ pc = "chain"
  /\ \E f \in EffectCallbacks :
       Step("forEach", <<f>>, CallMethod(cur, "forEach", <<f>>), FALSE)

DoUse ==
  /\ pc = "chain"
  /\ \E f \in EffectCallbacks :
       Step("use", <<f>>, CallMethod(cur, "use", <<f>>), FALSE)

DoGet ==
  /\ pc = "chain"
  /\ Step("get", <<>>, CallMethod(cur, "get", <<>>), FALSE)

DoGetError ==
  /\ pc = "chain"
  /\ IsResultObj(cur)
  /\ Step("getError", <<>>, CallMethod(cur, "getError", <<>>), FALSE)

DoGetValue ==
  /\ pc = "chain"
  /\ IsResultObj(cur)
  /\ Step("getValue", <<>>, CallMethod(cur, "getValue", <<>>), FALSE)

DoJoin ==
  /\ pc = "chain"
  /\ \E f1 \in {CbConst(Str("none")), CbMessage},
        f2 \in {CbConst(Str("some")), CbProfileUrl} :
       Step("join", <<f1, f2>>, CallMethod(cur, "join", <<f1, f2>>), FALSE)

(* .profileUrl() on what a selector built from UserFactory returned *)
DoProfileUrl ==
  /\ pc = "chain"
  /\ "profileUrl" \in DOMAIN cur.props
  /\ Step("profileUrl", <<>>, CallMethod(cur, "profileUrl", <<>>), TRUE)

Next ==
  \/ CallMaybe
  \/ CallJust
  \/ CallNothing
  \/ CallResult
  \/ CallOk
  \/ CallErr
  \/ CallIsMaybe
  \/ CallIsResult
  \/ CallMaybeSelector
  \/ CallResultSelector
  \/ ChainMaybeSelector
  \/ ChainResultSelector
  \/ DoMap
  \/ DoFlatMap
  \/ DoForEach
  \/ DoUse
  \/ DoGet
  \/ DoGetError
  \/ DoGetValue
  \/ DoJoin
  \/ DoProfileUrl

Spec == Init /\ [][Next]_vars

TypeOK ==
  /\ pc \in {"start", "chain", "thrown", "done"}
  /\ steps \in 0..MaxSteps
  /\ opsUsed \subseteq {"map", "flatMap", "forEach", "use", "get", "getError",
                         "getValue", "join", "profileUrl", "MaybeSelector",
                         "ResultSelector"}
  /\ pc = "chain" => cur.kind = "object"
  /\ pc = "start" <=> start = NoCall

----------------------------------------------------------------------------
(* Vocabulary of the properties *)

Absent == {Undefined, Null}

(* o is exactly what Nothing() / Just(x) / Err(e) / Ok(x) builds *)
IsNothing(o) == o = NothingObj

IsJust(o) ==
  /\ o.kind = "object"
  /\ "value" \in DOMAIN o.props
  /\ o = JustObj(o.props.value)

IsErr(o) ==
  /\ o.kind = "object"
  /\ "value" \in DOMAIN o.props
  /\ o = ErrObj(o.props.value)

IsOk(o) ==
  /\ o.kind = "object"
  /\ "value" \in DOMAIN o.props
  /\ o = OkObj(o.props.value)

MaybeStart == start.op \in {"Maybe", "Just", "Nothing"}

ResultStart == start.op \in {"Result", "Ok", "Err"}

ContainerOps ==
  {"map", "flatMap", "forEach", "use", "get", "getError", "getValue", "join"}

(* No selector was applied along the chain. *)
PureChain == opsUsed \subseteq ContainerOps

----------------------------------------------------------------------------
(* C1: a container obtained from Maybe, Just or Nothing and any chain of   *)
(* map / flatMap calls is present (isNothing = false) exactly when its     *)
(* value is neither undefined nor null; Maybe(undefined) and Maybe(null)   *)
(* are the absent variant, Maybe(x) for another x is present with value x. *)
C1_MaybeInvariant ==
  /\ (MaybeStart /\ PureChain /\ pc = "chain") =>
       /\ IsMaybeObj(cur)
       /\ cur.props.isNothing \in {Bool(TRUE), Bool(FALSE)}
       /\ cur.props.isNothing = Bool(FALSE) <=> cur.props.value \notin Absent
  /\ last.op = "Maybe" =>
       /\ ~last.out.threw
       /\ last.args[1] \in Absent =>
            /\ last.out.v.props.isNothing = Bool(TRUE)
            /\ last.out.v.props.value = Undefined
       /\ last.args[1] \notin Absent =>
            /\ last.out.v.props.isNothing = Bool(FALSE)
            /\ last.out.v.props.value = last.args[1]

C1_Witness ==
  /\ start.op = "Maybe"
  /\ start.args = <<Str("a")>>
  /\ {"map", "flatMap"} \subseteq opsUsed
  /\ PureChain
  /\ pc = "chain"
  /\ cur.props.isNothing = Bool(FALSE)

(* C2: a container obtained from Result, Ok or Err and any chain of map /  *)
(* flatMap calls is Ok exactly when its value is not an Error object;      *)
(* Result(null) and Result(undefined) are Ok, Result(e) for an Error e is  *)
(* Err wrapping that same e.                                               *)
C2_ResultInvariant ==
  /\ (ResultStart /\ PureChain /\ pc = "chain") =>
       /\ IsResultObj(cur)
       /\ cur.props.isOk \in {Bool(TRUE), Bool(FALSE)}
       /\ cur.props.isOk = Bool(TRUE) <=> ~InstanceOfError(cur.props.value)
  /\ last.op = "Result" =>
       /\ ~last.out.threw
       /\ last.out.v.props.value = last.args[1]
       /\ last.out.v.props.isOk = Bool(~InstanceOfError(last.args[1]))

C2_Witness ==
  /\ start.op = "Result"
  /\ start.args = <<Null>>
  /\ pc = "chain"
  /\ "map" \in opsUsed
  /\ PureChain
  /\ cur.props.isOk = Bool(FALSE)
  /\ cur.props.value = E2

(* C3: Just(x).map(f) is Maybe(f(x)): a callback returning undefined or    *)
(* null gives the absent variant, never a present one wrapping it;         *)
(* Ok(x).map(f) is Result(f(x)): a callback returning an Error gives Err   *)
(* wrapping that error.                                                    *)
C3_MapCollapse ==
  (last.op = "map" /\ (IsJust(last.recv) \/ IsOk(last.recv))) =>
    LET fx == Call(last.args[1], <<last.recv.props.value>>)
        out == last.out
    IN  IF fx.threw THEN out.threw /\ out.v = fx.v
        ELSE /\ ~out.threw
             /\ IsJust(last.recv) =>
                  /\ out.v = Maybe(fx.v).v
                  /\ fx.v \in Absent => out.v.props.isNothing = Bool(TRUE)
                  /\ out.v.props.isNothing = Bool(FALSE) =>
                       out.v.props.value \notin Absent
             /\ IsOk(last.recv) =>
                  /\ out.v = Result(fx.v).v
                  /\ InstanceOfError(fx.v) =>
                       /\ out.v.props.isOk = Bool(FALSE)
                       /\ out.v.props.value = fx.v

C3_Witness ==
  /\ last.op = "map"
  /\ IsJust(last.recv)
  /\ last.args = <<CbConst(Null)>>
  /\ ~last.out.threw
  /\ last.out.v.props.isNothing = Bool(TRUE)

(* C4: from an absent container or an Err(e), a chain of map, flatMap,     *)
(* forEach and use calls invokes no callback, throws nothing, and every    *)
(* container along it is again absent, or an Err wrapping the same e.      *)
ShortCircuitOps == {"map", "flatMap", "forEach", "use"}

C4_ShortCircuit ==
  (/\ MaybeStart \/ ResultStart
   /\ ~start.out.threw
   /\ IsNothing(start.out.v) \/ IsErr(start.out.v)
   /\ opsUsed \subseteq ShortCircuitOps) =>
    /\ pc = "chain"
    /\ last.out.calls = <<>>
    /\ ~last.out.threw
    /\ cur = start.out.v
    /\ last.op \in {"map", "flatMap"} => last.out.v = start.out.v
    /\ last.op \in {"forEach", "use"} => last.out.v = Undefined

C4_Witness ==
  /\ start.op = "Err"
  /\ start.args = <<E1>>
  /\ {"map", "flatMap", "use"} \subseteq opsUsed
  /\ opsUsed \subseteq ShortCircuitOps
  /\ pc = "chain"
  /\ cur.props.value = E1

----------------------------------------------------------------------------
Selectors == {"MaybeSelector", "ResultSelector"}

(* The container the factory was handed by the selector call c. *)
FactoryArg(c) == c.out.calls[1].args[2]

(* The variant tag of the selector's family. *)
Tag(op) == IF op = "MaybeSelector" THEN "isNothing" ELSE "isOk"

(* C5: a selector wrapper called with a raw value r (not undefined, not a  *)
(* container) does not fail and resolves to the smart constructor applied  *)
(* to r: Maybe(r) for the optional wrapper, Result(r) for the Result one.  *)
C5_RawNormalization ==
  (start.op \in Selectors /\ start.args[3] # Undefined) =>
    /\ ~start.out.threw
    /\ FactoryArg(start) =
         IF start.op = "MaybeSelector" THEN Maybe(start.args[3]).v
         ELSE Result(start.args[3]).v

(* C6: a wrapper called with an undefined result resolves to Nothing()     *)
(* (optional) or to Err(new Error("result is undefined")) (Result), hands  *)
(* that container to the factory and returns its operations merged with    *)
(* the factory's keys; through the user factory the chain then ends with   *)
(* value undefined, or with get() throwing "result is undefined".          *)
C6_MissingResult ==
  (start.op \in Selectors /\ start.args[3] = Undefined) =>
    LET F == start.args[1]
        out == start.out
    IN  /\ ~out.threw
        /\ Len(out.calls) = 1
        /\ out.calls[1].f = F
        /\ out.calls[1].args[1] = State
        /\ start.op = "MaybeSelector" => IsNothing(FactoryArg(start))
        /\ start.op = "ResultSelector" =>
             /\ IsErr(FactoryArg(start))
             /\ FactoryArg(start).props.value.name = "Error"
             /\ FactoryArg(start).props.value.message = "result is undefined"
        /\ LET sel == Call(F, <<State, FactoryArg(start)>>).v.props
           IN  /\ DOMAIN out.v.props = DOMAIN FactoryArg(start).props \cup DOMAIN sel
               /\ \A k \in DOMAIN sel : out.v.props[k] = sel[k]
               /\ \A k \in DOMAIN FactoryArg(start).props \ DOMAIN sel :
                    out.v.props[k] = FactoryArg(start).props[k]
        /\ (F = UserFactory /\ steps = 1 /\ last.op = "profileUrl") =>
             /\ ~last.out.threw
             /\ start.op = "MaybeSelector" => cur.props.value = Undefined
        /\ (/\ F = UserFactory /\ start.op = "ResultSelector"
            /\ steps = 2 /\ opsUsed = {"profileUrl", "get"} /\ last.op = "get") =>
             /\ last.out.threw
             /\ last.out.v.message = "result is undefined"

C6_Witness ==
  /\ start.op = "ResultSelector"
  /\ start.args = <<UserFactory, State, Undefined>>
  /\ steps = 2
  /\ opsUsed = {"profileUrl", "get"}
  /\ last.op = "get"
  /\ last.out.threw

(* The selector call just made was handed a container as its result. *)
SelectorOnContainer == last.op \in Selectors /\ last.recv.kind = "object"

(* C7 as stated: a wrapper handed a container does not re-wrap it: the     *)
(* factory receives that container and the returned object's variant tag   *)
(* and value are the input container's.                                    *)
C7_Original ==
  SelectorOnContainer =>
    /\ ~last.out.threw
    /\ FactoryArg(last) = last.recv
    /\ last.out.v.props[Tag(last.op)] = last.recv.props[Tag(last.op)]
    /\ last.out.v.props.value = last.recv.props.value

(* C7 amended: as stated, except that a tag or value key the factory's     *)
(* mapping itself defines holds the factory's entry.                       *)
C7_NoRewrap ==
  SelectorOnContainer =>
    /\ ~last.out.threw
    /\ FactoryArg(last) = last.recv
    /\ LET sel == Call(last.args[1], <<State, last.recv>>).v.props
       IN  \A k \in {Tag(last.op), "value"} :
             last.out.v.props[k] =
               IF k \in DOMAIN sel THEN sel[k] ELSE last.recv.props[k]

C7_Witness ==
  /\ start.op = "MaybeSelector"
  /\ start.args = <<UserFactory, State, User1>>
  /\ steps = 1
  /\ last.op = "MaybeSelector"
  /\ last.args[1] = UserFactory
  /\ last.recv = start.out.v
  /\ cur.props.isNothing = Bool(FALSE)
  /\ cur.props.value = User1

(* C8: Just(a) throws a TypeError exactly when a is undefined or null,     *)
(* Ok(a) exactly when a is an Error, Err(e) exactly when e is not an       *)
(* Error, Nothing() never; a throw leaves the caller without a container,  *)
(* otherwise the variant asked for is returned.                            *)
C8_RejectingConstructors ==
  LET a == last.args[1]
      Rejects == /\ last.out.threw
                 /\ last.out.v.name = "TypeError"
                 /\ pc = "thrown"
                 /\ cur = Undefined
      Returns == ~last.out.threw /\ pc = "chain" /\ cur = last.out.v
  IN  /\ last.op = "Just" =>
           IF a \in Absent THEN Rejects
           ELSE Returns /\ IsJust(cur) /\ cur.props.value = a
      /\ last.op = "Ok" =>
           IF InstanceOfError(a) THEN Rejects
           ELSE Returns /\ IsOk(cur) /\ cur.props.value = a
      /\ last.op = "Err" =>
           IF ~InstanceOfError(a) THEN Rejects
           ELSE Returns /\ IsErr(cur) /\ cur.props.value = a
      /\ last.op = "Nothing" => Returns /\ IsNothing(cur)

C8_Witness ==
  /\ last.op = "Err"
  /\ last.args = <<Str("a")>>
  /\ last.out.threw
  /\ pc = "thrown"

(* C9: get() returns x on Just(x) and on Ok(x), throws a TypeError on the  *)
(* absent container, and on Err(e) throws e itself, also after e was       *)
(* carried through map / flatMap calls.                                    *)
C9_Get ==
  last.op = "get" =>
    /\ (IsJust(last.recv) \/ IsOk(last.recv)) =>
         last.out = Ret(last.recv.props.value)
    /\ IsNothing(last.recv) =>
         last.out.threw /\ last.out.v.name = "TypeError"
    /\ IsErr(last.recv) =>
         last.out.threw /\ last.out.v = last.recv.props.value
    /\ (/\ start.op \in {"Err", "Result"}
        /\ InstanceOfError(start.args[1])
        /\ opsUsed \subseteq {"map", "flatMap", "get"}) =>
         last.out.threw /\ last.out.v = start.args[1]

C9_Witness ==
  /\ start.op = "Err"
  /\ start.args = <<E1>>
  /\ opsUsed = {"map", "flatMap", "get"}
  /\ last.op = "get"
  /\ last.out.threw
  /\ last.out.v = E1

(* C10: in a Result chain (from a ResultSelector, Result or Ok, then map   *)
(* calls) the callbacks given to use() and map() are never invoked with    *)
(* undefined.                                                              *)
C10_NoUndefinedInCallbacks ==
  (/\ start.op \in {"ResultSelector", "Result", "Ok"}
   /\ opsUsed \subseteq {"map", "use"}
   /\ last.op \in {"map", "use"}) =>
    \A i \in 1..Len(last.out.calls) :
      last.out.calls[i].f = last.args[1] =>
        Arg(last.out.calls[i].args, 1) # Undefined

----------------------------------------------------------------------------
(* C11: the object a selector wrapper returns has every key of the         *)
(* resolved container and every key of the factory's mapping, and a key    *)
(* defined by both (map, value, ...) holds the factory's version; calling  *)
(* such a key runs the factory's function, not the container's.            *)
C11_MergeOverride ==
  /\ (last.op \in Selectors /\ ~last.out.threw) =>
       LET result == FactoryArg(last).props
           sel == Call(last.args[1], <<State, FactoryArg(last)>>).v.props
           merged == last.out.v.props
       IN  /\ DOMAIN merged = DOMAIN result \cup DOMAIN sel
           /\ \A k \in DOMAIN sel : merged[k] = sel[k]
           /\ \A k \in DOMAIN result \ DOMAIN sel : merged[k] = result[k]
  /\ (/\ last.op = "map"
      /\ last.recv.kind = "object"
      /\ last.recv.props.map.fn = "override.map") =>
       /\ last.out = Ret(last.recv.props.map.env)
       /\ last.recv.props.value = Str("shadow")

C11_Witness ==
  /\ last.op = "ResultSelector"
  /\ last.args[1] = OverrideFactory
  /\ ~last.out.threw
  /\ IsOk(FactoryArg(last))
  /\ FactoryArg(last).props.value = User1
  /\ cur.props.value = Str("shadow")
  /\ cur.props.map = Closure("override.map", FactoryArg(last))
  /\ cur.props.get = Closure("Ok.get", User1)

----------------------------------------------------------------------------
(* C12: join(a, b) on a present / Ok container holding x invokes b once    *)
(* with x and never a; on the absent container it invokes a once with no   *)
(* arguments and never b; on Err(e) it invokes a once with e and never b;  *)
(* join gives back what the invoked callback gave (its value or throw).    *)
C12_JoinDispatch ==
  last.op = "join" =>
    LET a == last.args[1]
        b == last.args[2]
        out == last.out
        Gives(r) == out.threw = r.threw /\ out.v = r.v
    IN  /\ a # b
        /\ (IsJust(last.recv) \/ IsOk(last.recv)) =>
             /\ out.calls = <<[f |-> b, args |-> <<last.recv.props.value>>]>>
             /\ Gives(Call(b, <<last.recv.props.value>>))
        /\ IsNothing(last.recv) =>
             /\ out.calls = <<[f |-> a, args |-> <<>>]>>
             /\ Gives(Call(a, <<>>))
        /\ IsErr(last.recv) =>
             /\ out.calls = <<[f |-> a, args |-> <<last.recv.props.value>>]>>
             /\ Gives(Call(a, <<last.recv.props.value>>))

C12_Witness ==
  /\ last.op = "join"
  /\ IsErr(last.recv)
  /\ last.recv.props.value = E1
  /\ last.args = <<CbMessage, CbProfileUrl>>
  /\ last.out = [threw |-> FALSE, v |-> Str("fail"),
                 calls |-> <<[f |-> CbMessage, args |-> <<E1>>]>>]

C12_WitnessPresent ==
  /\ last.op = "join"
  /\ IsJust(last.recv)
  /\ last.recv.props.value = User1
  /\ last.args = <<CbMessage, CbProfileUrl>>
  /\ ~last.out.threw
  /\ last.out.v = User1.props.profileUrl

----------------------------------------------------------------------------
(* C13: for every input a (a container or any raw value, null and          *)
(* undefined included) isMaybe(a) returns true if a is a Maybe container   *)
(* and false otherwise, isResult(a) likewise for Result containers; the    *)
(* predicates never throw and never take a raw value for a container.      *)
C13_TypePredicates ==
  /\ last.op = "isMaybe" =>
       /\ ~last.out.threw
       /\ last.out.v = Bool(IsNothing(last.args[1]) \/ IsJust(last.args[1]))
  /\ last.op = "isResult" =>
       /\ ~last.out.threw
       /\ last.out.v = Bool(IsErr(last.args[1]) \/ IsOk(last.args[1]))

(* The predicates never throw. *)
C13_NeverThrows ==
  last.op \in {"isMaybe", "isResult"} => ~last.out.threw

(* A value is taken for a container only if it is one. *)
C13_NoRawAsContainer ==
  /\ (last.op = "isMaybe" /\ last.out = Ret(Bool(TRUE))) =>
       IsNothing(last.args[1]) \/ IsJust(last.args[1])
  /\ (last.op = "isResult" /\ last.out = Ret(Bool(TRUE))) =>
       IsErr(last.args[1]) \/ IsOk(last.args[1])

(* What does hold: a container of the family is recognised, and a string,  *)
(* an Error or a container of the other family is not.                     *)
C13_OnContainersAndPrimitives ==
  (/\ last.op \in {"isMaybe", "isResult"}
   /\ last.args[1] \notin Absent
   /\ last.args[1].kind = "object" =>
        \/ IsNothing(last.args[1]) \/ IsJust(last.args[1])
        \/ IsErr(last.args[1]) \/ IsOk(last.args[1])) =>
    /\ ~last.out.threw
    /\ last.op = "isMaybe" =>
         last.out.v = Bool(IsNothing(last.args[1]) \/ IsJust(last.args[1]))
    /\ last.op = "isResult" =>
         last.out.v = Bool(IsErr(last.args[1]) \/ IsOk(last.args[1]))

====
